---- MODULE Spec2Model ----
(***************************************************************************)
(* Model of the comment triage-and-dispatch pipeline                       *)
(* (queue_manager.py, judge.py, monitor.py, main.py, onecomme_client.py).  *)
(*                                                                         *)
(* Two specifications share one set of variables:                          *)
(*   QSpec - a QueueManager driven by an arbitrary sequence of enqueue,    *)
(*           dequeue, mark_idle and size calls;                            *)
(*   Spec  - the running program: feed connections calling handle_comment, *)
(*           the process_queue loop, the CpuMonitor loop and shutdown.     *)
(*                                                                         *)
(* The program is a set of asyncio tasks on one event loop.  A task only   *)
(* gives up control at an await that really suspends: asyncio.sleep, the   *)
(* to_thread call inside send_prompt, the websocket read.  The lock of     *)
(* QueueManager is never held across such a point, so acquiring it never   *)
(* suspends; each action below is the code that runs between two           *)
(* suspension points of one task.                                          *)
(***************************************************************************)
EXTENDS Integers, Sequences, FiniteSets, TLC

\* ---------------------------------------------------------------- bounds
\* total number of QueueItem objects constructed in one behaviour of QSpec
MaxItems == 4
\* total number of comments delivered by the feeds in one behaviour of Spec
MaxComments == 2
\* longest comment text handed to the judge functions in JudgeSpec
MaxLen == 5
\* enqueue calls entered in one behaviour of LockSpec
MaxCalls == 3
\* max_backoff of _connection_loop
max_backoff == 30

\* ------------------------------------------------------------- variables
VARIABLES
    items,          \* QueueManager._items: the heap array
    is_processing,  \* QueueManager._is_processing
    cfg,            \* the Config values the model reads (fixed at start-up)
    lock,           \* QueueManager._lock: locked flag, waiters, woken waiters
    clock,          \* the last value time.time() returned
    next_id,        \* number of QueueItem objects / comments created so far
    last,           \* QSpec: the last QueueManager call, its argument,
                    \*        its result and the heap it started from
    inflight,       \* QSpec: entries returned by dequeue since mark_idle
    deqlog,         \* QSpec: comment ids in the order dequeue returned them
    latest_usage_raw, \* CpuMonitor._latest_usage, in tenths of a percent
    mon,            \* position of the CpuMonitor.run task
    lpc,            \* position of the OneCommeClient.listen task
    cancelling,     \* top-level tasks with a CancelledError pending
    dpc,            \* position of the process_queue task
    ditem,          \* process_queue: the local variable item (<<>> = none)
    dwaited,        \* process_queue: wait_for_relief slept for this item
    relief_enq,     \* enqueues / evictions completed while process_queue
                    \*        sleeps inside wait_for_relief
    conn,           \* per feed connection: position, the comment
                    \*        handle_comment is working on, backoff
    stats,          \* StatsManager._stats counters
    phase           \* main_async: running / signalled / stopping / stopped

qvars == <<items, is_processing, cfg, lock, clock, next_id, last, inflight, deqlog>>
pvars == <<latest_usage_raw, mon, lpc, cancelling, dpc, ditem,
           dwaited, relief_enq, conn, stats, phase>>
vars == <<items, is_processing, cfg, lock, clock, next_id, last, inflight, deqlog,
          latest_usage_raw, mon, lpc, cancelling, dpc, ditem,
          dwaited, relief_enq, conn, stats, phase>>

\* Optional[T]: None is the empty sequence, a value x is <<x>>
None == <<>>
Some(x) == <<x>>

Range(s) == {s[i] : i \in 1..Len(s)}

\* asyncio.Lock() as constructed: not locked, nobody waiting
Unlocked == [locked |-> FALSE, waiters |-> <<>>, woken |-> {}]

\* dict.get(key, default)
Get(d, key, default) == IF key \in DOMAIN d THEN d[key] ELSE default

\* a or b: the first operand unless it is falsy (None or the empty text)
Or(a, b) == IF a # <<>> THEN a ELSE b

\* ------------------------------------------------------------- QueueItem
\* QueueItem(priority, comment_id, comment_data); __post_init__ stores
\* time.time() in inserted_at.
QueueItem(priority, now, comment_id, comment_data) ==
    [priority |-> priority, inserted_at |-> now,
     comment_id |-> comment_id, comment_data |-> comment_data]

\* The heap holds tuples (priority, inserted_at, item).  Tuple comparison is
\* lexicographic; the third component is a QueueItem(order=True), which
\* compares (priority, inserted_at) again, so two tuples with the same
\* priority and time are neither smaller than the other.
TupleLess(a, b) ==
    \/ a.priority < b.priority
    \/ a.priority = b.priority /\ a.inserted_at < b.inserted_at

\* Tuple equality as list.remove sees it: comment_id and comment_data are
\* compare=False fields.
TupleEq(a, b) ==
    a.priority = b.priority /\ a.inserted_at = b.inserted_at

\* ----------------------------------------------------------------- heapq
\* Positions are Python's 0-based indices; heap[pos + 1] is the element.

RECURSIVE siftdown_loop(_, _, _, _)
siftdown_loop(heap, startpos, pos, newitem) ==
    IF pos > startpos
    THEN LET parentpos == (pos - 1) \div 2
             parent == heap[parentpos + 1]
         IN  IF TupleLess(newitem, parent)
             THEN siftdown_loop([heap EXCEPT ![pos + 1] = parent],
                                startpos, parentpos, newitem)
             ELSE [heap EXCEPT ![pos + 1] = newitem]
    ELSE [heap EXCEPT ![pos + 1] = newitem]

\* heapq._siftdown(heap, startpos, pos)
siftdown(heap, startpos, pos) ==
    siftdown_loop(heap, startpos, pos, heap[pos + 1])

RECURSIVE siftup_loop(_, _, _, _)
siftup_loop(heap, startpos, pos, newitem) ==
    LET endpos == Len(heap)
        leftpos == 2 * pos + 1
        rightpos == leftpos + 1
        childpos == IF rightpos < endpos
                       /\ ~TupleLess(heap[leftpos + 1], heap[rightpos + 1])
                    THEN rightpos ELSE leftpos
    IN  IF leftpos < endpos
        THEN siftup_loop([heap EXCEPT ![pos + 1] = heap[childpos + 1]],
                         startpos, childpos, newitem)
        ELSE siftdown([heap EXCEPT ![pos + 1] = newitem], startpos, pos)

\* heapq._siftup(heap, pos)
siftup(heap, pos) == siftup_loop(heap, pos, pos, heap[pos + 1])

\* heapq.heappush(heap, item)
heappush(heap, item) ==
    LET appended == Append(heap, item)
    IN  siftdown(appended, 0, Len(appended) - 1)

\* a pop that takes the last array element instead of the root
heappop_last(heap) ==
    [item |-> heap[Len(heap)], heap |-> SubSeq(heap, 1, Len(heap) - 1)]

\* heapq.heappop(heap): the returned item and the heap left behind
heappop(heap) ==
    LET lastelt == heap[Len(heap)]
        rest == SubSeq(heap, 1, Len(heap) - 1)
    IN  IF rest # <<>>
        THEN [item |-> heap[1], heap |-> siftup([rest EXCEPT ![1] = lastelt], 0)]
        ELSE [item |-> lastelt, heap |-> rest]

RECURSIVE heapify_loop(_, _)
heapify_loop(x, i) ==
    IF i < 0 THEN x ELSE heapify_loop(siftup(x, i), i - 1)

\* heapq.heapify(x): for i in reversed(range(n // 2)): _siftup(x, i)
heapify(x) == heapify_loop(x, (Len(x) \div 2) - 1)

\* a selection that takes the most urgent entry instead of the least urgent
MaxIndex_min(s) ==
    CHOOSE i \in 1..Len(s) :
        /\ \A j \in 1..Len(s) : s[j].priority >= s[i].priority
        /\ \A j \in 1..(i - 1) : s[j].priority > s[i].priority

\* max(self._items, key=lambda candidate: candidate[0]): the position
\* (1-based) of the first element whose priority is the largest
MaxIndex(s) ==
    CHOOSE i \in 1..Len(s) :
        /\ \A j \in 1..Len(s) : s[j].priority <= s[i].priority
        /\ \A j \in 1..(i - 1) : s[j].priority < s[i].priority

\* list.remove(x): drop the first element equal to x
RemoveFirst(s, x) ==
    LET i == CHOOSE k \in 1..Len(s) :
                 /\ TupleEq(s[k], x)
                 /\ \A j \in 1..(k - 1) : ~TupleEq(s[j], x)
    IN  SubSeq(s, 1, i - 1) \o SubSeq(s, i + 1, Len(s))

\* ---------------------------------------------------------- QueueManager
\* an overflow test that is off by one
Overflows_late(heap, max_size) == max_size > 0 /\ Len(heap) > max_size + 1

\* the overflow test of enqueue
Overflows(heap, max_size) == max_size > 0 /\ Len(heap) > max_size

\* QueueManager.enqueue: the heap afterwards and the evicted entry.  The
\* pushed heap is bound through a singleton set, so it is computed once.
enqueue(heap, max_size, item) ==
    CHOOSE r \in
        { IF Overflows(pushed, max_size)
          THEN LET evicted == pushed[MaxIndex(pushed)]
               IN  [items |-> heapify(RemoveFirst(pushed, evicted)),
                    evicted |-> Some(evicted)]
          ELSE [items |-> pushed, evicted |-> None] :
          pushed \in {heappush(heap, item)} } : TRUE

\* a dequeue that never looks at the processing flag
Refuses_never(processing, allow_concurrent) == FALSE

\* the single-flight test of dequeue
Refuses(processing, allow_concurrent) == processing /\ ~allow_concurrent

\* a dequeue that returns the best entry and leaves it in the heap
dequeue_peek(heap, processing, allow_concurrent) ==
    IF heap = <<>> \/ Refuses(processing, allow_concurrent)
    THEN [items |-> heap, is_processing |-> processing, item |-> None]
    ELSE [items |-> heap,
          is_processing |-> IF ~allow_concurrent THEN TRUE ELSE processing,
          item |-> Some(heappop(heap).item)]

\* QueueManager.dequeue: the heap and flag afterwards and the returned entry
dequeue(heap, processing, allow_concurrent) ==
    IF heap = <<>>
    THEN [items |-> heap, is_processing |-> processing, item |-> None]
    ELSE IF Refuses(processing, allow_concurrent)
    THEN [items |-> heap, is_processing |-> processing, item |-> None]
    ELSE LET popped == heappop(heap)
         IN  [items |-> popped.heap,
              is_processing |-> IF ~allow_concurrent THEN TRUE ELSE processing,
              item |-> Some(popped.item)]

\* a mark_idle that leaves the flag as it is
mark_idle_stuck(processing) == processing

\* a mark_idle that flips the flag
mark_idle_toggle(processing) == ~processing

\* QueueManager.mark_idle: the flag afterwards
mark_idle(processing) == FALSE

\* QueueManager.size
size(heap) == Len(heap)

\* time.time(): the wall clock never runs backwards here, but two calls
\* within one tick of its resolution return the same value
TimeValues == {clock, clock + 1}


\* ------------------------------------------------------------ the config
\* Config values the model reads.  max_cpu_usage and
\* llm_judge_cpu_threshold are the defaults of config.py.
max_cpu_usage == 80
llm_judge_cpu_threshold == 60

\* MAX_QUEUE_SIZE values explored (0 = unbounded)
MaxSizes == {0, 1, 2, 3}

\* the priorities calculate_priority produces
Priorities == {0, 3}

\* the reasons handed to record_skip; a key absent from the skip_reasons
\* dict counts as 0
SkipReasons == {"too_short", "ignore_pattern", "repetitive", "llm_disabled",
                "skip_high_cpu_load", "llm_judged", "llm_error:exc",
                "queue_full", "api_error"}

\* Stats() as constructed
NoStats == [total_received |-> 0, total_responded |-> 0, total_skipped |-> 0,
            skip_reasons |-> [r \in SkipReasons |-> 0]]

\* ------------------------------------------- QSpec: the queue on its own
NoCall == [op |-> "none", arg |-> None, ret |-> None, pre |-> <<>>,
           pre_processing |-> FALSE, n |-> 0]

PipelineIdle ==
    /\ latest_usage_raw = 0
    /\ mon = "sleep"
    /\ lpc = "wait"
    /\ cancelling = {}
    /\ dpc = "sleep"
    /\ ditem = None
    /\ dwaited = FALSE
    /\ relief_enq = [enq |-> FALSE, evict |-> FALSE]
    /\ conn = <<>>
    /\ stats = NoStats
    /\ phase = "running"

\* QueueManager.__init__
QInit ==
    /\ items = <<>>
    /\ is_processing = FALSE
    /\ lock = Unlocked
    /\ cfg \in [max_size : MaxSizes, allow_concurrent : BOOLEAN,
                enable_llm_judge : {TRUE}, min_comment_length : {2}]
    /\ clock = 0
    /\ next_id = 0
    /\ last = NoCall
    /\ inflight = 0
    /\ deqlog = <<>>
    /\ PipelineIdle

\* a caller builds a QueueItem and awaits enqueue, as handle_comment does
QEnqueue ==
    /\ next_id < MaxItems
    /\ \E p \in Priorities, now \in TimeValues :
        LET item == QueueItem(p, now, next_id + 1, <<>>)
            r == enqueue(items, cfg.max_size, item)
        IN  /\ items' = r.items
            /\ clock' = now
            /\ next_id' = next_id + 1
            /\ last' = [op |-> "enqueue", arg |-> Some(item),
                        ret |-> r.evicted, pre |-> items,
                        pre_processing |-> is_processing, n |-> 0]
    /\ UNCHANGED <<is_processing, cfg, lock, inflight, deqlog>>
    /\ UNCHANGED pvars

\* a caller awaits dequeue
QDequeue ==
    /\ LET r == dequeue(items, is_processing, cfg.allow_concurrent)
       IN  /\ items' = r.items
           /\ is_processing' = r.is_processing
           /\ last' = [op |-> "dequeue", arg |-> None, ret |-> r.item,
                       pre |-> items, pre_processing |-> is_processing,
                       n |-> 0]
           /\ inflight' = inflight + Len(r.item)
           /\ deqlog' = deqlog \o r.item
    /\ UNCHANGED <<cfg, lock, clock, next_id>>
    /\ UNCHANGED pvars

\* a caller awaits mark_idle
QMarkIdle ==
    /\ is_processing' = mark_idle(is_processing)
    /\ inflight' = 0
    /\ last' = [op |-> "mark_idle", arg |-> None, ret |-> None,
                pre |-> items, pre_processing |-> is_processing, n |-> 0]
    /\ UNCHANGED <<items, cfg, lock, clock, next_id, deqlog>>
    /\ UNCHANGED pvars

\* a caller awaits size
QSize ==
    /\ last' = [op |-> "size", arg |-> None, ret |-> None, pre |-> items,
                pre_processing |-> is_processing, n |-> size(items)]
    /\ UNCHANGED <<items, is_processing, cfg, lock, clock, next_id, inflight,
                   deqlog>>
    /\ UNCHANGED pvars

QNext == QEnqueue \/ QDequeue \/ QMarkIdle \/ QSize

QSpec == QInit /\ [][QNext]_vars


\* ------------------------------------------------------- text helpers
\* A str is a sequence of one-character strings.
Uppers == <<"A", "B", "C", "E", "N", "O", "Q", "S", "W", "Y">>
Lowers == <<"a", "b", "c", "e", "n", "o", "q", "s", "w", "y">>

LowerChar(ch) ==
    IF \E k \in 1..Len(Uppers) : Uppers[k] = ch
    THEN Lowers[CHOOSE k \in 1..Len(Uppers) : Uppers[k] = ch]
    ELSE ch

UpperChar(ch) ==
    IF \E k \in 1..Len(Lowers) : Lowers[k] = ch
    THEN Uppers[CHOOSE k \in 1..Len(Lowers) : Lowers[k] = ch]
    ELSE ch

\* str.lower(), str.upper()
lower(text) == [i \in 1..Len(text) |-> LowerChar(text[i])]
upper(text) == [i \in 1..Len(text) |-> UpperChar(text[i])]

Whitespace == {" "}

RECURSIVE lstrip(_)
lstrip(text) ==
    IF text # <<>> /\ Head(text) \in Whitespace
    THEN lstrip(Tail(text)) ELSE text

RECURSIVE rstrip(_)
rstrip(text) ==
    IF text # <<>> /\ text[Len(text)] \in Whitespace
    THEN rstrip(SubSeq(text, 1, Len(text) - 1)) ELSE text

\* str.strip()
strip(text) == rstrip(lstrip(text))

\* needle in hay
Contains(needle, hay) ==
    \E i \in 1..(Len(hay) - Len(needle) + 1) :
        SubSeq(hay, i, i + Len(needle) - 1) = needle

\* str.count(ch) for a one-character ch
count(text, ch) == Cardinality({i \in 1..Len(text) : text[i] = ch})

\* --------------------------------------------------------------- judge.py
\* TRIGGER_WORDS, IGNORE_PATTERNS, POSITIVE_KEYWORDS (tests/test_judge.py
\* uses one of each)
trigger_words == << <<"Q">> >>
ignore_patterns == << <<"w">> >>
positive_keywords == << <<"?">> >>

\* a trigger test that compares the text as typed
detect_trigger_case_sensitive(comment_text) ==
    \E k \in 1..Len(trigger_words) : Contains(trigger_words[k], comment_text)

\* judge.detect_trigger
detect_trigger(comment_text) ==
    LET lowered == lower(comment_text)
    IN  \E k \in 1..Len(trigger_words) :
            Contains(lower(trigger_words[k]), lowered)

\* a priority rule that forgets the first-time flag
calculate_priority_no_first(comment_data) ==
    LET has_trigger == detect_trigger(comment_data.comment)
    IN  IF has_trigger
        THEN [priority |-> 0, has_trigger |-> has_trigger]
        ELSE [priority |-> 3, has_trigger |-> has_trigger]

\* judge.calculate_priority
calculate_priority(comment_data) ==
    LET comment_text == Or(Get(comment_data, "comment", <<>>), <<>>)
        is_first_time == Get(comment_data, "isFirstTime", FALSE)
        has_trigger == detect_trigger(comment_text)
    IN  IF has_trigger \/ is_first_time
        THEN [priority |-> 0, has_trigger |-> has_trigger]
        ELSE [priority |-> 3, has_trigger |-> has_trigger]

\* int(n * 0.7) for the lengths 0..4 the caller passes
IntOfSeventy(n) == (7 * n) \div 10

\* a length test that lets texts one character short of the minimum pass
TooShort_off_by_one(normalized, min_comment_length) ==
    Len(normalized) < min_comment_length - 1

\* len(normalized) < config.min_comment_length
TooShort(normalized, min_comment_length) ==
    Len(normalized) < min_comment_length

\* any(pattern and pattern in normalized for pattern in patterns)
MatchesAny(patterns, normalized) ==
    \E k \in 1..Len(patterns) :
        /\ patterns[k] # <<>>
        /\ Contains(patterns[k], normalized)

\* an ignore test that gives way to a positive keyword
IgnoreMatches_unless_positive(normalized) ==
    /\ MatchesAny(ignore_patterns, normalized)
    /\ ~MatchesAny(positive_keywords, normalized)

\* the loop over config.ignore_patterns
IgnoreMatches(normalized) == MatchesAny(ignore_patterns, normalized)

\* the loop over config.positive_keywords
PositiveMatches(normalized) == MatchesAny(positive_keywords, normalized)

\* judge.stage_b_judge: decision is Some(TRUE) (accept), Some(FALSE)
\* (reject) or None (inconclusive); raised is the IndexError of
\* normalized[0] on an empty string
stage_b_judge(comment_text, min_comment_length) ==
    LET normalized == strip(comment_text)
        n == Len(normalized)
    IN  IF TooShort(normalized, min_comment_length)
        THEN [raised |-> FALSE, decision |-> Some(FALSE), reason |-> "too_short"]
        ELSE IF IgnoreMatches(normalized)
        THEN [raised |-> FALSE, decision |-> Some(FALSE), reason |-> "ignore_pattern"]
        ELSE IF PositiveMatches(normalized)
        THEN [raised |-> FALSE, decision |-> Some(TRUE), reason |-> "positive_keyword"]
        ELSE IF n < 5
        THEN IF n = 0
             THEN [raised |-> TRUE, decision |-> None, reason |-> "IndexError"]
             ELSE IF count(normalized, normalized[1]) >= IntOfSeventy(n)
             THEN [raised |-> FALSE, decision |-> Some(FALSE), reason |-> "repetitive"]
             ELSE [raised |-> FALSE, decision |-> None, reason |-> "need_llm_judge"]
        ELSE [raised |-> FALSE, decision |-> None, reason |-> "need_llm_judge"]

\* a gate that tests the load before the enable flag
stage_a_gate_load_first(enable_llm_judge, cpu_usage) ==
    IF cpu_usage > llm_judge_cpu_threshold THEN "skip_high_cpu_load"
    ELSE IF ~enable_llm_judge THEN "llm_disabled"
    ELSE "classify"

\* judge.stage_a_judge up to its await: the result it returns at once, or
\* "classify" when it issues the remote call
stage_a_gate(enable_llm_judge, cpu_usage) ==
    IF ~enable_llm_judge THEN "llm_disabled"
    ELSE IF cpu_usage > llm_judge_cpu_threshold THEN "skip_high_cpu_load"
    ELSE "classify"

\* judge.stage_a_judge after the await: decision from the response text
\* (AITuberKitClient.classify strips it)
stage_a_decision(response_text) ==
    Contains(<<"Y", "E", "S">>, upper(strip(response_text)))

\* judge.should_respond as the caller sees it: stage B, then stage A.
\* remote is what aituberkit_client.classify does if it is called: it
\* raises or returns a text.  called tells whether classify was called.
should_respond(comment_data, config, cpu_usage, remote) ==
    LET comment_text == Or(Get(comment_data, "comment", <<>>), <<>>)
        primary == stage_b_judge(comment_text, config.min_comment_length)
        gate == stage_a_gate(config.enable_llm_judge, cpu_usage)
    IN  IF primary.raised
        THEN [raised |-> TRUE, called |-> FALSE, decision |-> FALSE,
              reason |-> primary.reason]
        ELSE IF primary.decision # None
        THEN [raised |-> FALSE, called |-> FALSE,
              decision |-> primary.decision[1], reason |-> primary.reason]
        ELSE IF gate # "classify"
        THEN [raised |-> FALSE, called |-> FALSE, decision |-> FALSE,
              reason |-> gate]
        ELSE IF remote.raised
        THEN [raised |-> FALSE, called |-> TRUE, decision |-> FALSE,
              reason |-> "llm_error:exc"]
        ELSE [raised |-> FALSE, called |-> TRUE,
              decision |-> stage_a_decision(remote.text),
              reason |-> "llm_judged"]

\* ------------------------------------------------------------- monitor.py
\* psutil.cpu_percent readings, in tenths of a percent
UsageSamples == {0, 799, 800, 900}

\* CpuMonitor.latest_usage: int(self._latest_usage)
latest_usage == latest_usage_raw \div 10

\* a gate that lets a reading equal to the ceiling pass
MustWait_strict == latest_usage > max_cpu_usage

\* the loop test of CpuMonitor.wait_for_relief
MustWait == latest_usage >= max_cpu_usage

\* ------------------------------------------------------------- logger.py
\* StatsManager.record_received.  unique_users, first_time_users and
\* trigger_word_detections are write-only telemetry and are left out.
record_received(st) == [st EXCEPT !.total_received = @ + 1]

\* StatsManager.record_response
record_response(st) == [st EXCEPT !.total_responded = @ + 1]

\* StatsManager.record_skip
record_skip(st, reason) ==
    [st EXCEPT !.total_skipped = @ + 1, !.skip_reasons[reason] = @ + 1]

\* -------------------------------------------------------- prompt_builder
\* Texts are sequences of characters; a template is a sequence whose
\* elements are characters or replacement fields such as "{username}".
Fields == {"{username}", "{name}"}

\* the defaults of GREETING_FIRST and GREETING_RETURN, shortened
default_greeting_first == <<"{username}", "!">>
default_greeting_return == <<"{username}", "+">>

\* the label used when a comment has neither name nor userid
default_username == <<"v">>

RECURSIVE format_text(_, _)
format_text(template, username) ==
    IF template = <<>> THEN <<>>
    ELSE (IF Head(template) = "{username}" THEN username
          ELSE <<Head(template)>>) \o format_text(Tail(template), username)

\* template.format(username=username): KeyError for any other field
format(template, username) ==
    [raised |-> \E i \in 1..Len(template) :
                    template[i] \in Fields \ {"{username}"},
     text |-> format_text(template, username)]

\* an author label that prefers the userid to the name
username_userid_first(comment_data) ==
    Or(Get(comment_data, "userid", None),
       Or(Get(comment_data, "name", None), default_username))

\* build_prompt: the local variable username
username(comment_data) ==
    Or(Get(comment_data, "name", None),
       Or(Get(comment_data, "userid", None), default_username))

\* build_prompt: the lines of the prompt, or the exception of format
build_prompt(comment_data, config) ==
    LET comment_text == Get(comment_data, "comment", <<>>)
        is_first_time == Get(comment_data, "isFirstTime", FALSE)
        greeting == IF is_first_time
                    THEN format(config.greeting_first,
                                username(comment_data))
                    ELSE format(config.greeting_return,
                                username(comment_data))
        comment_line == username(comment_data) \o <<":">> \o comment_text
    IN  IF config.use_greeting
        THEN [raised |-> greeting.raised,
              lines |-> << <<"[conversation_history]">>, <<>>,
                           greeting.text, <<>>, comment_line >>]
        ELSE [raised |-> FALSE,
              lines |-> << <<"[conversation_history]">>, <<>>,
                           comment_line >>]

\* ------------------------------------------- Spec: the running program
\* the feed connections (one _connection_loop task per configured URL)
Conns == {1, 2}

\* the comments the feeds deliver:
\*   "q"   a trigger word in another case, shorter than the default minimum
\*   "aww" contains an ignore pattern, from a first-time author
\*   "a?"  contains a positive keyword
\*   "abc" stage B cannot decide
\*   " "   empty once stripped
Comments ==
    { [comment |-> <<"q">>, isFirstTime |-> FALSE],
      [comment |-> <<"a", "w", "w">>, isFirstTime |-> TRUE],
      [comment |-> <<"a", "?">>, isFirstTime |-> FALSE],
      [comment |-> <<"a", "b", "c">>, isFirstTime |-> FALSE],
      [comment |-> <<" ">>, isFirstTime |-> FALSE] }

\* the configurations the program is started with: the shipped defaults
\* with MAX_QUEUE_SIZE=1; and an unbounded queue with remote judgment off,
\* MIN_COMMENT_LENGTH=0 and concurrent responses allowed
Configs ==
    { [max_size |-> 1, allow_concurrent |-> FALSE, enable_llm_judge |-> TRUE,
       min_comment_length |-> 2, use_greeting |-> TRUE,
       greeting_first |-> default_greeting_first,
       greeting_return |-> default_greeting_return],
      [max_size |-> 0, allow_concurrent |-> TRUE, enable_llm_judge |-> FALSE,
       min_comment_length |-> 0, use_greeting |-> TRUE,
       greeting_first |-> default_greeting_first,
       greeting_return |-> default_greeting_return] }

\* the same two configurations with GREETING_FIRST set to a template that
\* names a field build_prompt does not pass to format
GreetingConfigs ==
    { [c EXCEPT !.greeting_first = <<"{name}", "!">>] : c \in Configs }

\* texts the remote judge answers with
Responses == { <<"y", "e", "s">>, <<"N", "O">> }

\* main_async's stop_event, and the stop events of CpuMonitor and
\* OneCommeClient, which main_async sets in its finally block
stop_event == phase # "running"
monitor_stop_event == phase \in {"stopping", "stopped"}
onecomme_stop_event == phase \in {"stopping", "stopped"}

NoRelief == [enq |-> FALSE, evict |-> FALSE]

\* state when main_async has created its three tasks and every feed
\* connection has connected and subscribed
InitWith(configs) ==
    /\ items = <<>>
    /\ is_processing = FALSE
    /\ lock = Unlocked
    /\ cfg \in configs
    /\ clock = 0
    /\ next_id = 0
    /\ last = NoCall
    /\ inflight = 0
    /\ deqlog = <<>>
    /\ latest_usage_raw = 0
    /\ mon = "sleep"
    /\ lpc = "wait"
    /\ cancelling = {}
    /\ dpc = "sleep"
    /\ ditem = None
    /\ dwaited = FALSE
    /\ relief_enq = NoRelief
    /\ conn = [c \in Conns |-> [pc |-> "recv", pending |-> None,
                                backoff |-> 1, cancel |-> FALSE]]
    /\ stats = NoStats
    /\ phase = "running"

\* the state after main_async has created its three tasks
Init == InitWith(Configs)

\* the same start with a malformed first-time greeting configured
GreetingInit == InitWith(GreetingConfigs)

\* ---- ingestion: onecomme_client.py and handle_comment

\* a _consume that stops reading while the dispatch loop waits for relief
CanReceive_gated(c) ==
    /\ conn[c].pc = "recv"
    /\ ~conn[c].cancel
    /\ ~onecomme_stop_event
    /\ dpc # "relief"

\* _consume is handed a message and the stop event is not set
CanReceive(c) ==
    /\ conn[c].pc = "recv"
    /\ ~conn[c].cancel
    /\ ~onecomme_stop_event

\* an except branch that goes back to the loop test without sleeping
AfterError_no_sleep(c) ==
    IF onecomme_stop_event
    THEN [conn EXCEPT ![c].pc = "done"]
    ELSE [conn EXCEPT ![c].pc = "connect"]

\* the except branch of _connection_loop: leave when stopping, else sleep
AfterError(c) ==
    IF onecomme_stop_event
    THEN [conn EXCEPT ![c].pc = "done"]
    ELSE [conn EXCEPT ![c].pc = "backoff"]

\* handle_comment from QueueItem(...) to its end: enqueue, then record the
\* eviction or read size() for the log line
EnqueueComment(id, priority, comment_data, st) ==
    \E now \in TimeValues :
        \E queue_item \in {QueueItem(priority, now, id, comment_data)} :
        \E r \in {enqueue(items, cfg.max_size, queue_item)} :
            /\ items' = r.items
            /\ clock' = now
            /\ stats' = IF r.evicted # None
                        THEN record_skip(st, "queue_full") ELSE st
            /\ relief_enq' = IF dpc = "relief"
                             THEN [enq |-> TRUE,
                                   evict |-> relief_enq.evict
                                             \/ r.evicted # None]
                             ELSE relief_enq

\* handle_comment: record_skip(skip_reason) and return
SkipComment(reason, st) ==
    /\ stats' = record_skip(st, reason)
    /\ UNCHANGED <<items, clock, relief_enq>>

\* _consume receives a comment and awaits handle_comment, which runs up to
\* its end or up to the await of the remote classify call
HandleComment(c, comment_data) ==
    /\ CanReceive(c)
    /\ next_id < MaxComments
    /\ LET id == next_id + 1
           pr == calculate_priority(comment_data)
           st == record_received(stats)
           sb == stage_b_judge(comment_data.comment, cfg.min_comment_length)
           gate == stage_a_gate(cfg.enable_llm_judge, latest_usage)
       IN  /\ next_id' = id
           /\ IF pr.priority = 0
              THEN /\ EnqueueComment(id, pr.priority, comment_data, st)
                   /\ UNCHANGED conn
              ELSE IF sb.raised
              THEN \* the exception leaves handle_comment and _consume;
                   \* _connection_loop logs it and sleeps for backoff
                   /\ conn' = AfterError(c)
                   /\ stats' = st
                   /\ UNCHANGED <<items, clock, relief_enq>>
              ELSE IF sb.decision = Some(TRUE)
              THEN /\ EnqueueComment(id, pr.priority, comment_data, st)
                   /\ UNCHANGED conn
              ELSE IF sb.decision = Some(FALSE)
              THEN /\ SkipComment(sb.reason, st)
                   /\ UNCHANGED conn
              ELSE IF gate = "classify"
              THEN /\ conn' = [conn EXCEPT
                                 ![c].pc = "classify",
                                 ![c].pending =
                                     Some([id |-> id, priority |-> pr.priority,
                                           comment_data |-> comment_data])]
                   /\ stats' = st
                   /\ UNCHANGED <<items, clock, relief_enq>>
              ELSE /\ SkipComment(gate, st)
                   /\ UNCHANGED conn
    /\ UNCHANGED <<is_processing, cfg, lock, last, inflight, deqlog,
                   latest_usage_raw, mon, lpc, cancelling, dpc, ditem,
                   dwaited, phase>>

\* the remote classify call returns; stage_a_judge and handle_comment finish
ClassifyReturn(c, response_text) ==
    /\ conn[c].pc = "classify"
    /\ ~conn[c].cancel
    /\ LET pending == conn[c].pending[1]
       IN  IF stage_a_decision(response_text)
           THEN EnqueueComment(pending.id, pending.priority,
                               pending.comment_data, stats)
           ELSE SkipComment("llm_judged", stats)
    /\ conn' = [conn EXCEPT ![c].pc = "recv", ![c].pending = None]
    /\ UNCHANGED <<is_processing, cfg, lock, next_id, last, inflight, deqlog,
                   latest_usage_raw, mon, lpc, cancelling, dpc,
                   ditem, dwaited, phase>>

\* a stage_a_judge without the try: the exception leaves handle_comment
\* and _consume, and _connection_loop handles it
ClassifyRaise_propagates(c) ==
    /\ conn[c].pc = "classify"
    /\ ~conn[c].cancel
    /\ conn' = [AfterError(c) EXCEPT ![c].pending = None]
    /\ UNCHANGED <<items, is_processing, cfg, lock, clock, next_id, last, inflight,
                   deqlog, latest_usage_raw, mon, lpc, cancelling, dpc,
                   ditem, dwaited, relief_enq, stats, phase>>

\* the remote classify call raises; stage_a_judge returns llm_error
ClassifyRaise(c) ==
    /\ conn[c].pc = "classify"
    /\ ~conn[c].cancel
    /\ SkipComment("llm_error:exc", stats)
    /\ conn' = [conn EXCEPT ![c].pc = "recv", ![c].pending = None]
    /\ UNCHANGED <<is_processing, cfg, lock, next_id, last, inflight, deqlog,
                   latest_usage_raw, mon, lpc, cancelling, dpc,
                   ditem, dwaited, phase>>

\* _consume is handed a message after the stop event was set: it breaks,
\* and the while loop of _connection_loop ends
ConsumeStopped(c) ==
    /\ conn[c].pc = "recv"
    /\ ~conn[c].cancel
    /\ onecomme_stop_event
    /\ conn' = [conn EXCEPT ![c].pc = "done"]
    /\ UNCHANGED <<items, is_processing, cfg, lock, clock, next_id, last, inflight,
                   deqlog, latest_usage_raw, mon, lpc, cancelling, dpc, ditem, dwaited, relief_enq, stats, phase>>

ConnUnchanged ==
    UNCHANGED <<items, is_processing, cfg, lock, clock, next_id, last, inflight,
                deqlog, latest_usage_raw, mon, lpc, cancelling, dpc, ditem,
                dwaited, relief_enq, stats, phase>>

\* websockets.connect succeeds, the subscribe message is sent, backoff is
\* reset and _consume waits for the first message
ConnectOk(c) ==
    /\ conn[c].pc = "connect"
    /\ ~conn[c].cancel
    /\ conn' = [conn EXCEPT ![c].pc = "recv", ![c].backoff = 1]
    /\ ConnUnchanged

Min(a, b) == IF a < b THEN a ELSE b

\* asyncio.sleep(backoff) ends: backoff doubles up to max_backoff and the
\* while loop tests the stop event
BackoffWake(c) ==
    /\ conn[c].pc = "backoff"
    /\ ~conn[c].cancel
    /\ conn' = [conn EXCEPT
                  ![c].backoff = Min(conn[c].backoff * 2, max_backoff),
                  ![c].pc = IF onecomme_stop_event THEN "done" ELSE "connect"]
    /\ ConnUnchanged

\* CancelledError is thrown into a connection task at its await; a comment
\* waiting for the remote judge is abandoned
ConnCancelled(c) ==
    /\ conn[c].cancel
    /\ conn[c].pc # "done"
    /\ conn' = [conn EXCEPT ![c].pc = "done", ![c].cancel = FALSE,
                            ![c].pending = None]
    /\ ConnUnchanged

\* a listen whose finally block gathers the connection tasks without
\* cancelling them
ListenStop_no_cancel ==
    /\ lpc = "wait"
    /\ onecomme_stop_event \/ "listen" \in cancelling
    /\ lpc' = "gather"
    /\ cancelling' = cancelling \ {"listen"}
    /\ UNCHANGED <<items, is_processing, cfg, lock, clock, next_id, last, inflight,
                   deqlog, latest_usage_raw, mon, dpc, ditem,
                   dwaited, relief_enq, conn, stats, phase>>

\* listen wakes from stop_event.wait() (or is cancelled there): its finally
\* block cancels the connection tasks and gathers them
ListenStop ==
    /\ lpc = "wait"
    /\ onecomme_stop_event \/ "listen" \in cancelling
    /\ lpc' = "gather"
    /\ cancelling' = cancelling \ {"listen"}
    /\ conn' = [c \in Conns |->
                  IF conn[c].pc = "done" THEN conn[c]
                  ELSE [conn[c] EXCEPT !.cancel = TRUE]]
    /\ UNCHANGED <<items, is_processing, cfg, lock, clock, next_id, last, inflight,
                   deqlog, latest_usage_raw, mon, dpc, ditem,
                   dwaited, relief_enq, stats, phase>>

\* the gather in listen returns
ListenDone ==
    /\ lpc = "gather"
    /\ \A c \in Conns : conn[c].pc = "done"
    /\ lpc' = "done"
    /\ UNCHANGED <<items, is_processing, cfg, lock, clock, next_id, last, inflight,
                   deqlog, latest_usage_raw, mon, cancelling, dpc,
                   ditem, dwaited, relief_enq, conn, stats, phase>>

\* ---- CpuMonitor.run
\* the sleep ends (or the task starts): test the stop event, take a sample,
\* store it, sleep again.  record_cpu only appends to a list no code reads
\* back, so it is left out.
MonitorSample(usage) ==
    /\ mon = "sleep"
    /\ "monitor" \notin cancelling
    /\ IF monitor_stop_event
       THEN mon' = "done" /\ UNCHANGED latest_usage_raw
       ELSE mon' = "sleep" /\ latest_usage_raw' = usage
    /\ UNCHANGED <<items, is_processing, cfg, lock, clock, next_id, last, inflight,
                   deqlog, lpc, cancelling, dpc, ditem, dwaited,
                   relief_enq, conn, stats, phase>>

MonitorCancelled ==
    /\ "monitor" \in cancelling
    /\ mon' = "done"
    /\ cancelling' = cancelling \ {"monitor"}
    /\ UNCHANGED <<items, is_processing, cfg, lock, clock, next_id, last, inflight,
                   deqlog, latest_usage_raw, lpc, dpc, ditem,
                   dwaited, relief_enq, conn, stats, phase>>

\* ---- process_queue
\* wait_for_relief has returned: build_prompt runs, then send_prompt is
\* awaited.  build_prompt is outside the try, so its exception ends the
\* task without mark_idle.
StartGeneration(item) ==
    IF build_prompt(item[1].comment_data, cfg).raised THEN "done" ELSE "send"

\* one pass from the top of the while loop to the next suspension:
\* dequeue; nothing -> sleep(0.1); an entry -> wait_for_relief, which
\* either sleeps or returns at once so that build_prompt and send_prompt run
DispatchLoopTop(processing) ==
    LET r == dequeue(items, processing, cfg.allow_concurrent)
    IN  /\ items' = r.items
        /\ is_processing' = r.is_processing
        /\ IF r.item = None
           THEN /\ dpc' = "sleep" /\ ditem' = None /\ dwaited' = FALSE
                /\ UNCHANGED relief_enq
           ELSE IF MustWait
           THEN /\ dpc' = "relief" /\ ditem' = r.item /\ dwaited' = TRUE
                /\ relief_enq' = NoRelief
           ELSE /\ dpc' = StartGeneration(r.item)
                /\ ditem' = IF dpc' = "done" THEN None ELSE r.item
                /\ dwaited' = FALSE
                /\ UNCHANGED relief_enq

DispatchUnchanged ==
    UNCHANGED <<cfg, lock, clock, next_id, last, inflight, deqlog,
                latest_usage_raw, mon, lpc, cancelling, conn,
                phase>>

\* asyncio.sleep(0.1) ends
DispatchWake ==
    /\ dpc = "sleep"
    /\ "dispatch" \notin cancelling
    /\ DispatchLoopTop(is_processing)
    /\ UNCHANGED stats
    /\ DispatchUnchanged

\* asyncio.sleep(2) inside wait_for_relief ends
ReliefWake ==
    /\ dpc = "relief"
    /\ "dispatch" \notin cancelling
    /\ dpc' = IF MustWait THEN "relief" ELSE StartGeneration(ditem)
    /\ ditem' = IF dpc' = "done" THEN None ELSE ditem
    /\ dwaited' = IF dpc' = "done" THEN FALSE ELSE dwaited
    /\ relief_enq' = IF MustWait THEN relief_enq ELSE NoRelief
    /\ UNCHANGED <<items, is_processing, stats>>
    /\ DispatchUnchanged

\* send_prompt returns: record_response, mark_idle, next pass
GenReturn ==
    /\ dpc = "send"
    /\ "dispatch" \notin cancelling
    /\ stats' = record_response(stats)
    /\ DispatchLoopTop(mark_idle(is_processing))
    /\ DispatchUnchanged

\* send_prompt raises: record_skip("api_error"), mark_idle, next pass
GenRaise ==
    /\ dpc = "send"
    /\ "dispatch" \notin cancelling
    /\ stats' = record_skip(stats, "api_error")
    /\ DispatchLoopTop(mark_idle(is_processing))
    /\ DispatchUnchanged

\* CancelledError is thrown into process_queue at its await.  Only the
\* await of send_prompt is inside the try, so only there does the finally
\* block call mark_idle; except Exception does not catch CancelledError.
DispatchCancelled ==
    /\ "dispatch" \in cancelling
    /\ dpc # "done"
    /\ is_processing' = IF dpc = "send" THEN mark_idle(is_processing)
                        ELSE is_processing
    /\ dpc' = "done"
    /\ ditem' = None
    /\ cancelling' = cancelling \ {"dispatch"}
    /\ dwaited' = FALSE
    /\ relief_enq' = NoRelief
    /\ UNCHANGED <<items, cfg, lock, clock, next_id, last, inflight, deqlog,
                   latest_usage_raw, mon, lpc, conn, stats, phase>>

\* ---- main_async
MainUnchanged ==
    UNCHANGED <<items, is_processing, cfg, lock, clock, next_id, last, inflight,
                deqlog, latest_usage_raw, mon, lpc, dpc, ditem,
                dwaited, relief_enq, conn, stats>>

\* _signal_handler: SIGINT or SIGTERM sets stop_event
Signal ==
    /\ phase = "running"
    /\ phase' = "signalled"
    /\ UNCHANGED cancelling
    /\ MainUnchanged

\* main_async wakes from stop_event.wait(): cpu_monitor.stop(),
\* onecomme.stop(), task.cancel() for the three tasks, then gather.
\* cancel() does nothing to a task that has already finished.
Shutdown ==
    /\ phase = "signalled"
    /\ phase' = "stopping"
    /\ cancelling' = {"monitor", "listen"}
                        \cup (IF dpc = "done" THEN {} ELSE {"dispatch"})
    /\ MainUnchanged

\* the gather in main_async returns
MainReturn ==
    /\ phase = "stopping"
    /\ mon = "done" /\ dpc = "done" /\ lpc = "done"
    /\ phase' = "stopped"
    /\ UNCHANGED cancelling
    /\ MainUnchanged

\* one step of one task, with the feeds delivering comments from the set
\* comments and the monitor reading values from the set usages
NextWith(comments, usages) ==
    \/ \E c \in Conns, comment_data \in comments : HandleComment(c, comment_data)
    \/ \E c \in Conns, response_text \in Responses : ClassifyReturn(c, response_text)
    \/ \E c \in Conns : ClassifyRaise(c)
    \/ \E c \in Conns : ConsumeStopped(c)
    \/ \E c \in Conns : ConnectOk(c)
    \/ \E c \in Conns : BackoffWake(c)
    \/ \E c \in Conns : ConnCancelled(c)
    \/ ListenStop
    \/ ListenDone
    \/ \E usage \in usages : MonitorSample(usage)
    \/ MonitorCancelled
    \/ DispatchWake
    \/ ReliefWake
    \/ GenReturn
    \/ GenRaise
    \/ DispatchCancelled
    \/ Signal
    \/ Shutdown
    \/ MainReturn

Next == NextWith(Comments, UsageSamples)

Spec == Init /\ [][Next]_vars

GreetingSpec == GreetingInit /\ [][Next]_vars

\* a step of a task that is ready to run without anything happening
\* outside the program: a task into which CancelledError has been thrown,
\* a task whose event has been set, a gather whose tasks have all ended
ReadyStep ==
    \/ Shutdown
    \/ MainReturn
    \/ MonitorCancelled
    \/ DispatchCancelled
    \/ ListenStop
    \/ ListenDone
    \/ \E c \in Conns : ConnCancelled(c)

\* The event loop keeps running ready tasks.  Nothing is assumed about the
\* feeds, the remote calls or the signal.
Fairness == WF_vars(ReadyStep)

\* the shutdown is followed with one urgent comment, one comment that goes
\* to the remote judge, one whose handling raises (so that the connection
\* sleeps for its back-off), and a load below or above both thresholds
StopComments ==
    { [comment |-> <<"a", "w", "w">>, isFirstTime |-> TRUE],
      [comment |-> <<"a", "b", "c">>, isFirstTime |-> FALSE],
      [comment |-> <<" ">>, isFirstTime |-> FALSE] }

StopUsages == {0, 900}

FairNext == NextWith(StopComments, StopUsages)

FairSpec == Init /\ [][FairNext]_vars /\ Fairness

\* ------------------------------- JudgeSpec: the judge functions on their own
\* the characters of the texts: two plain ones, the ignore pattern, the
\* positive keyword and a space
Alphabet == {"a", "b", "w", "?", " "}

\* all texts of at most n characters
Texts(n) == UNION {[1..k -> Alphabet] : k \in 0..n}

\* the values of cpu_usage passed to should_respond
CpuUsages == {0, 60, 61, 100}

\* what the remote judge does when it is called
Remotes ==
    {[raised |-> TRUE, text |-> <<>>]}
        \cup {[raised |-> FALSE, text |-> t] : t \in Responses}

\* MIN_COMMENT_LENGTH and ENABLE_LLM_JUDGE values explored
JudgeConfigs ==
    { [c EXCEPT !.min_comment_length = m, !.enable_llm_judge = e] :
        c \in {cc \in Configs : ~cc.allow_concurrent},
        m \in {0, 2, 3}, e \in BOOLEAN }

JInit ==
    /\ items = <<>>
    /\ is_processing = FALSE
    /\ lock = Unlocked
    /\ cfg \in JudgeConfigs
    /\ clock = 0
    /\ next_id = 0
    /\ last = NoCall
    /\ inflight = 0
    /\ deqlog = <<>>
    /\ PipelineIdle

\* one call per behaviour: the functions keep no state between calls
JCall(op, arg, ret) ==
    /\ last = NoCall
    /\ last' = [op |-> op, arg |-> arg, ret |-> ret, pre |-> <<>>,
                pre_processing |-> FALSE, n |-> 0]
    /\ UNCHANGED <<items, is_processing, cfg, lock, clock, next_id, inflight,
                   deqlog>>
    /\ UNCHANGED pvars

\* a caller calls stage_b_judge(comment_text, config)
JStageB(comment_text) ==
    JCall("stage_b_judge", comment_text,
          stage_b_judge(comment_text, cfg.min_comment_length))

\* a caller awaits should_respond(comment_data, ...)
JShouldRespond(comment_text, cpu_usage, remote) ==
    JCall("should_respond",
          [comment |-> comment_text, cpu_usage |-> cpu_usage,
           remote |-> remote],
          should_respond([comment |-> comment_text], cfg, cpu_usage, remote))

\* the characters of the texts handed to calculate_priority: the trigger
\* word in both cases, a plain character and a space
TriggerAlphabet == {"a", "q", "Q", " "}

\* the comment dicts handed to calculate_priority: texts of at most n
\* characters, with the isFirstTime key true, false or absent
PriorityInputs(n) ==
    LET texts == UNION {[1..k -> TriggerAlphabet] : k \in 0..n}
    IN  {[comment |-> t, isFirstTime |-> f] : t \in texts, f \in BOOLEAN}
            \cup {[comment |-> t] : t \in texts}

\* a caller calls calculate_priority(comment_data, config)
JPriority(comment_data) ==
    JCall("calculate_priority", comment_data, calculate_priority(comment_data))

\* the comment dicts handed to build_prompt: each of name, userid,
\* comment and isFirstTime may be absent, and name and userid may be empty
PromptInputs ==
    { [k \in keys |-> full[k]] :
        full \in [name : {<<>>, <<"n">>}, userid : {<<>>, <<"u">>},
                  comment : {<<"a">>}, isFirstTime : BOOLEAN],
        keys \in SUBSET {"name", "userid", "comment", "isFirstTime"} }

\* a caller calls build_prompt(comment_data, config), with USE_GREETING
\* on or off
JBuildPrompt(comment_data, use_greeting) ==
    JCall("build_prompt",
          [comment_data |-> comment_data, use_greeting |-> use_greeting],
          build_prompt(comment_data,
                       [cfg EXCEPT !.use_greeting = use_greeting]))

JNext ==
    /\ last = NoCall
    /\ \/ \E comment_text \in Texts(MaxLen) : JStageB(comment_text)
       \/ \E comment_data \in PriorityInputs(MaxLen - 2) :
               JPriority(comment_data)
       \/ \E comment_data \in PromptInputs, use_greeting \in BOOLEAN :
               JBuildPrompt(comment_data, use_greeting)
       \/ \E comment_text \in Texts(MaxLen - 2), cpu_usage \in CpuUsages,
             remote \in Remotes :
               JShouldRespond(comment_text, cpu_usage, remote)

JudgeSpec == JInit /\ [][JNext]_vars

\* ======================================================= claims on QSpec
\* the entries an enqueue call chose its victim from: the heap it found
\* plus the entry it inserted
AfterInsert == Range(last.pre) \cup Range(last.arg)

\* C1: with max_size > 0 the number of stored entries never exceeds
\* max_size; every enqueue returns no entry or one entry, which is then
\* missing from the store (size grows by one minus the evictions); with
\* max_size = 0 no enqueue evicts.
C1_SizeBounded ==
    /\ cfg.max_size > 0 => size(items) <= cfg.max_size
    /\ last.op = "enqueue" =>
          /\ Len(last.ret) \in {0, 1}
          /\ size(items) = Len(last.pre) + 1 - Len(last.ret)
          /\ cfg.max_size = 0 => last.ret = None

\* C1 witness: an enqueue into a full bounded queue evicted one entry
C1_Witness ==
    /\ last.op = "enqueue"
    /\ cfg.max_size > 0
    /\ Len(last.pre) = cfg.max_size
    /\ last.ret # None

\* C2: an evicted entry has the numerically highest priority among the
\* entries present after the insertion (the new entry included); with
\* max_size = 1 and one tier-3 entry stored, enqueuing a tier-0 entry
\* returns the tier-3 entry and keeps the tier-0 entry.
C2_EvictsLeastUrgent ==
    last.op = "enqueue" /\ last.ret # None =>
        /\ last.ret[1] \in AfterInsert
        /\ \A e \in AfterInsert : e.priority <= last.ret[1].priority
        /\ (/\ cfg.max_size = 1
            /\ Len(last.pre) = 1
            /\ last.pre[1].priority = 3
            /\ last.arg[1].priority = 0) =>
               /\ last.ret = last.pre
               /\ items = last.arg

\* C2 witness: scenario C has happened
C2_Witness ==
    /\ last.op = "enqueue"
    /\ cfg.max_size = 1
    /\ Len(last.pre) = 1
    /\ last.pre[1].priority = 3
    /\ last.arg[1].priority = 0
    /\ last.ret # None

\* C3 (as claimed): among the entries that share the numerically highest
\* priority, the evicted one has the oldest insertion time.
C3_EvictsOldestOfWorst ==
    last.op = "enqueue" /\ last.ret # None =>
        \A e \in AfterInsert :
            e.priority = last.ret[1].priority =>
                last.ret[1].inserted_at <= e.inserted_at

\* C4: in single-flight mode a dequeue called while an entry is in flight
\* returns None and leaves the store unchanged, so at most one dequeued
\* entry is in flight.
C4_SingleFlight ==
    ~cfg.allow_concurrent =>
        /\ inflight <= 1
        /\ is_processing <=> inflight = 1
        /\ last.op = "dequeue" /\ last.pre_processing =>
              /\ last.ret = None
              /\ items = last.pre

\* C4 witness: a dequeue was refused although entries were stored
C4_Witness ==
    /\ ~cfg.allow_concurrent
    /\ last.op = "dequeue"
    /\ last.pre_processing
    /\ last.pre # <<>>
    /\ inflight = 1

\* C5: when dequeue returns an entry, no entry that remains stored has a
\* numerically smaller priority.
C5_MostUrgentFirst ==
    last.op = "dequeue" /\ last.ret # None =>
        \A e \in Range(items) : last.ret[1].priority <= e.priority

\* C5 witness: a tier-0 entry was returned ahead of a tier-3 entry that was
\* enqueued before it
C5_Witness ==
    /\ last.op = "dequeue"
    /\ last.ret # None
    /\ last.ret[1].priority = 0
    /\ \E e \in Range(items) :
          e.priority = 3 /\ e.comment_id < last.ret[1].comment_id

\* C6 (as claimed): of two dequeued entries with equal priority, the one
\* enqueued earlier (smaller comment_id) was dequeued first.
C6_FifoWithinPriority ==
    \A i, j \in 1..Len(deqlog) :
        i < j /\ deqlog[i].priority = deqlog[j].priority =>
            deqlog[i].comment_id < deqlog[j].comment_id


\* ======================================================== claims on Spec
\* C7 (as claimed): every comment handed to handle_comment gets a
\* record_skip or a record_response; so once main_async has returned, the
\* recorded outcomes account for every received comment.
C7_EveryCommentRecorded ==
    phase = "stopped" =>
        stats.total_received = stats.total_skipped + stats.total_responded

\* the comments the claim calls urgent
Urgent(comment_data) ==
    detect_trigger(comment_data.comment) \/ comment_data.isFirstTime

\* C8: a comment with a trigger word or the first-time flag is given
\* priority 0 and is enqueued inside the handle_comment call that received
\* it: the call ends with the entry stored, issues no remote classify call,
\* does not raise, and records no skip other than a queue_full eviction.
C8_UrgentBypassesTriage ==
    [][\A c \in Conns, comment_data \in Comments :
          /\ next_id' = next_id + 1
          /\ Urgent(comment_data)
          /\ HandleComment(c, comment_data)
          =>
              /\ conn' = conn
              /\ stats'.total_received = stats.total_received + 1
              /\ \A r \in SkipReasons \ {"queue_full"} :
                    stats'.skip_reasons[r] = stats.skip_reasons[r]
              /\ \E i \in 1..Len(items') :
                    /\ items'[i].comment_id = next_id + 1
                    /\ items'[i].priority = 0
                    /\ items'[i].comment_data = comment_data]_vars

\* C8 witness: a first-time comment that stage B would have rejected is
\* stored with priority 0, enqueued while the load was above both thresholds
C8_Witness ==
    /\ latest_usage > llm_judge_cpu_threshold
    /\ \E i \in 1..Len(items) :
          /\ items[i].priority = 0
          /\ items[i].comment_data.isFirstTime
          /\ stage_b_judge(items[i].comment_data.comment,
                           cfg.min_comment_length).decision = Some(FALSE)
          /\ items[i].inserted_at = clock

\* a step in which process_queue starts a generation call
GenStarts == dpc' = "send" /\ (dpc # "send" \/ ditem' # ditem)

\* C9: a generation call starts only in a state where the monitor's latest
\* sample is strictly below max_cpu_usage.
C9_GateBeforeGeneration ==
    [][GenStarts => 10 * max_cpu_usage > latest_usage_raw']_vars

\* C9 witness: a generation call is running for an entry that had to wait
\* in wait_for_relief
C9_Witness ==
    /\ dpc = "send"
    /\ dwaited
    /\ ditem # None

C11_GenerationFailureIsRecorded ==
    /\ [](dpc = "sleep" /\ "dispatch" \notin cancelling /\ items # <<>> =>
            ENABLED (DispatchWake /\ ditem' # None))
    /\ [][GenRaise =>
            /\ stats'.skip_reasons["api_error"] =
                   stats.skip_reasons["api_error"] + 1
            /\ stats'.total_skipped = stats.total_skipped + 1
            /\ stats'.total_responded = stats.total_responded
            /\ stats'.total_received = stats.total_received
            /\ dpc' \in {"sleep", "relief", "send"}
            /\ IF items = <<>>
               THEN dpc' = "sleep" /\ ditem' = None
               ELSE /\ ditem' = Some(heappop(items).item)
                    /\ ditem' # ditem]_vars

\* C11 witness: after a failed generation call the next entry is being
\* generated for, in single-flight mode
C11_Witness ==
    /\ stats.skip_reasons["api_error"] >= 1
    /\ ~cfg.allow_concurrent
    /\ dpc = "send"
    /\ ditem # None

\* C12: in single-flight mode, whenever process_queue is not working on a
\* dequeued entry (it sleeps between passes, or it has ended), mark_idle
\* has been called for the entry it dequeued last: the flag is clear.
C12_MarkIdleOnEveryPath ==
    ~cfg.allow_concurrent /\ dpc \in {"sleep", "done"} => ~is_processing

\* C13: a classify call that raises ends handle_comment with exactly one
\* skip of reason llm_error and nothing enqueued; the connection is back
\* in _consume waiting for the next message, the other connections are
\* untouched, and from then on every delivered comment can be handled.
C13_JudgeFailureIsRecorded ==
    /\ [](stats.skip_reasons["llm_error:exc"] > 0 =>
            \A c \in Conns :
                (/\ conn[c].pc = "recv"
                 /\ ~conn[c].cancel
                 /\ ~onecomme_stop_event
                 /\ next_id < MaxComments) =>
                    \A comment_data \in Comments :
                        ENABLED HandleComment(c, comment_data))
    /\ [][\A c \in Conns :
            conn[c].pc = "classify" /\ ClassifyRaise(c) =>
                /\ stats' = record_skip(stats, "llm_error:exc")
                /\ items' = items
                /\ conn'[c].pc = "recv"
                /\ conn'[c].pending = None
                /\ \A d \in Conns \ {c} : conn'[d] = conn[d]
                /\ dpc' = dpc /\ mon' = mon /\ lpc' = lpc]_vars

\* C13 witness: after a failed classify call a later comment has been
\* received and is waiting for the remote judge
C13_Witness ==
    /\ stats.skip_reasons["llm_error:exc"] = 1
    /\ stats.total_skipped = 1
    /\ \E c \in Conns :
          /\ conn[c].pc = "classify"
          /\ conn[c].pending[1].id = 2

\* stage B gives no verdict for the text of the last should_respond call
Inconclusive(comment_text) ==
    LET primary == stage_b_judge(comment_text, cfg.min_comment_length)
    IN  ~primary.raised /\ primary.decision = None

\* C14: should_respond calls the remote judge only if stage B was
\* inconclusive, the judge is enabled and cpu_usage is at most
\* llm_judge_cpu_threshold; for an inconclusive text it returns
\* (False, llm_disabled) when the judge is disabled, whatever the load, and
\* (False, skip_high_cpu_load) when it is enabled and the load is above the
\* threshold, without a remote call in either case.
C14_RemoteJudgeGate ==
    last.op = "should_respond" =>
        /\ last.ret.called =>
              /\ Inconclusive(last.arg.comment)
              /\ cfg.enable_llm_judge
              /\ last.arg.cpu_usage <= llm_judge_cpu_threshold
        /\ Inconclusive(last.arg.comment) /\ ~cfg.enable_llm_judge =>
              /\ ~last.ret.called /\ ~last.ret.raised
              /\ ~last.ret.decision
              /\ last.ret.reason = "llm_disabled"
        /\ /\ Inconclusive(last.arg.comment)
           /\ cfg.enable_llm_judge
           /\ last.arg.cpu_usage > llm_judge_cpu_threshold
           => /\ ~last.ret.called /\ ~last.ret.raised
              /\ ~last.ret.decision
              /\ last.ret.reason = "skip_high_cpu_load"

\* C14 witness: the judge is disabled and the load is above the threshold
C14_Witness ==
    /\ last.op = "should_respond"
    /\ Inconclusive(last.arg.comment)
    /\ ~cfg.enable_llm_judge
    /\ last.arg.cpu_usage > llm_judge_cpu_threshold
    /\ last.ret.reason = "llm_disabled"

\* C15: once the shutdown signal has been received main_async returns, and
\* a task that has been cancelled does nothing but end: its next step,
\* wherever it was suspended, takes it to its end (listen first gathers
\* the connection tasks it has cancelled).
C15_ShutdownCompletes ==
    /\ (phase = "signalled") ~> (phase = "stopped")
    /\ [][/\ "dispatch" \in cancelling /\ dpc' # dpc => dpc' = "done"
          /\ "monitor" \in cancelling /\ mon' # mon => mon' = "done"
          /\ "listen" \in cancelling /\ lpc' # lpc => lpc' = "gather"
          /\ \A c \in Conns :
                conn[c].cancel /\ conn'[c] # conn[c] => conn'[c].pc = "done"
         ]_vars

\* C15 witness: main_async has returned after the dispatch loop was
\* cancelled inside wait_for_relief
C15_Witness ==
    /\ phase = "stopped"
    /\ ~cfg.allow_concurrent
    /\ is_processing

\* C16: once the shutdown signal has set the stop event, no step adds an
\* entry to the queue.
C16_NoEnqueueAfterStop ==
    [][stop_event =>
          \A i \in 1..Len(items') :
              \E j \in 1..Len(items) : items'[i] = items[j]]_vars

\* the result (False, reason) of stage_b_judge
Reject(reason) ==
    [raised |-> FALSE, decision |-> Some(FALSE), reason |-> reason]

\* C18: for every text whose trimmed length is below min_comment_length,
\* stage_b_judge returns (False, too_short), whatever patterns or keywords
\* the text contains.
C18_TooShortFirst ==
    /\ last.op = "stage_b_judge"
    /\ Len(strip(last.arg)) < cfg.min_comment_length
    => last.ret = Reject("too_short")

\* C18 witness: the text of test_stage_b_skip, an ignore pattern on its own
C18_Witness ==
    /\ last.op = "stage_b_judge"
    /\ last.arg = <<"w">>
    /\ cfg.min_comment_length = 2
    /\ last.ret.reason = "too_short"

\* C19: a text of at least the minimum length that contains an ignore
\* pattern and a positive keyword is rejected with reason ignore_pattern,
\* and (True, positive_keyword) is returned only for a text without any
\* ignore pattern.
C19_IgnoreBeforePositive ==
    last.op = "stage_b_judge" =>
        LET normalized == strip(last.arg)
            ignored == \E k \in 1..Len(ignore_patterns) :
                          /\ ignore_patterns[k] # <<>>
                          /\ Contains(ignore_patterns[k], normalized)
            positive == \E k \in 1..Len(positive_keywords) :
                           /\ positive_keywords[k] # <<>>
                           /\ Contains(positive_keywords[k], normalized)
        IN  /\ Len(normalized) >= cfg.min_comment_length
               /\ ignored /\ positive
               => last.ret = Reject("ignore_pattern")
            /\ last.ret.reason = "positive_keyword" =>
                  /\ ~ignored
                  /\ last.ret.decision = Some(TRUE)

\* C19 witness: a text with both, long enough
C19_Witness ==
    /\ last.op = "stage_b_judge"
    /\ last.arg = <<"?", "w", "a">>
    /\ cfg.min_comment_length = 3
    /\ last.ret.reason = "ignore_pattern"

\* C20: a non-empty text that passed the length, ignore-pattern and
\* positive-keyword checks is rejected as repetitive exactly when its
\* trimmed length n is below 5 and its first character occurs c times with
\* 10 * c >= 7 * n; otherwise stage_b_judge returns (None, need_llm_judge).
C20_RepetitiveAtSeventyPercent ==
    /\ last.op = "stage_b_judge"
    /\ last.ret.reason \notin {"too_short", "ignore_pattern", "positive_keyword"}
    /\ strip(last.arg) # <<>>
    => LET normalized == strip(last.arg)
           n == Len(normalized)
           c == Cardinality({i \in 1..n : normalized[i] = normalized[1]})
       IN  IF n < 5 /\ 10 * c >= 7 * n
           THEN last.ret = Reject("repetitive")
           ELSE last.ret = [raised |-> FALSE, decision |-> None,
                            reason |-> "need_llm_judge"]

\* ---------------------------- LockSpec: QueueManager calls step by step
\* QSpec and Spec run each QueueManager method as one step, which is what
\* a single event loop does with a body that never awaits.  LockSpec lets
\* the callers interleave between the statements of the bodies, so that
\* it is self._lock alone that keeps a body together.

\* the tasks that call the QueueManager: the connection tasks through
\* handle_comment, and process_queue (numbered 0 next to the connections)
DispatchCaller == 0
Callers == Conns \cup {DispatchCaller}

\* Lock.acquire's fast path with the lock state ignored
LockFree_always(l) == TRUE

\* Lock.acquire's fast path: the lock is not held and nobody waits for it
LockFree(l) == ~l.locked /\ l.waiters = <<>>

\* Lock.acquire up to its first suspension: take the lock, or queue up
acquire(l, caller) ==
    IF LockFree(l)
    THEN [l EXCEPT !.locked = TRUE]
    ELSE [l EXCEPT !.waiters = Append(@, caller)]

\* Lock.acquire after its future was set: leave the waiters, take the lock
acquire_resume(l, caller) ==
    [locked |-> TRUE,
     waiters |-> SelectSeq(l.waiters, LAMBDA w : w # caller),
     woken |-> l.woken \ {caller}]

\* Lock.release: unlock and set the future of the first waiter
release(l) ==
    [l EXCEPT !.locked = FALSE,
              !.woken = IF l.waiters = <<>> THEN @ ELSE @ \cup {l.waiters[1]}]

\* where "async with self._lock" leaves a caller: inside the body, or
\* suspended until the lock is handed over
Entered(l, waiting, body) == IF LockFree(l) THEN body ELSE waiting

\* time.time() in LockSpec: every QueueItem is built at a later reading
LockTimes == {clock + 1}

LockConfigs ==
    [max_size : {0, 1, 2}, allow_concurrent : BOOLEAN,
     enable_llm_judge : {TRUE}, min_comment_length : {2}]

LockInit ==
    /\ items = <<>>
    /\ is_processing = FALSE
    /\ lock = Unlocked
    /\ cfg \in LockConfigs
    /\ clock = 0
    /\ next_id = 0
    /\ last = NoCall
    /\ inflight = 0
    /\ deqlog = <<>>
    /\ latest_usage_raw = 0
    /\ mon = "sleep"
    /\ lpc = "wait"
    /\ cancelling = {}
    /\ dpc = "sleep"
    /\ ditem = None
    /\ dwaited = FALSE
    /\ relief_enq = [enq |-> FALSE, evict |-> FALSE]
    /\ conn = [c \in Conns |-> [pc |-> "idle", pending |-> None,
                                backoff |-> 1, cancel |-> FALSE]]
    /\ stats = NoStats
    /\ phase = "running"

LockConnUnchanged ==
    UNCHANGED <<is_processing, cfg, inflight, deqlog, latest_usage_raw, mon,
                lpc, cancelling, dpc, ditem, dwaited, relief_enq, stats,
                phase>>

LockDispatchUnchanged ==
    UNCHANGED <<cfg, clock, next_id, inflight, deqlog, latest_usage_raw, mon,
                lpc, cancelling, dwaited, relief_enq, conn, stats, phase>>

\* handle_comment builds a QueueItem and enters enqueue
LEnqueueCall(c) ==
    /\ conn[c].pc = "idle"
    /\ next_id < MaxCalls
    /\ \E p \in Priorities, now \in LockTimes :
        /\ conn' = [conn EXCEPT
                      ![c].pc = Entered(lock, "enqueue_wait", "enqueue_push"),
                      ![c].pending = Some(QueueItem(p, now, next_id + 1, <<>>))]
        /\ clock' = now
    /\ next_id' = next_id + 1
    /\ lock' = acquire(lock, c)
    /\ UNCHANGED <<items, last>>
    /\ LockConnUnchanged

\* a connection task that waited for the lock is handed it
LConnResume(c) ==
    /\ conn[c].pc \in {"enqueue_wait", "size_wait"}
    /\ c \in lock.woken
    /\ lock' = acquire_resume(lock, c)
    /\ conn' = [conn EXCEPT ![c].pc = IF @ = "enqueue_wait"
                                      THEN "enqueue_push" ELSE "size_read"]
    /\ UNCHANGED <<items, clock, next_id, last>>
    /\ LockConnUnchanged

\* enqueue: heapq.heappush
LEnqueuePush(c) ==
    /\ conn[c].pc = "enqueue_push"
    /\ items' = heappush(items, conn[c].pending[1])
    /\ conn' = [conn EXCEPT ![c].pc = "enqueue_evict"]
    /\ UNCHANGED <<lock, clock, next_id, last>>
    /\ LockConnUnchanged

\* enqueue: the overflow test, the eviction, the end of the with block and
\* the return; handle_comment goes on to size() when nothing was evicted
LEnqueueEvict(c) ==
    /\ conn[c].pc = "enqueue_evict"
    /\ \E evicted \in {IF Overflows(items, cfg.max_size)
                       THEN Some(items[MaxIndex(items)]) ELSE None} :
        /\ items' = IF evicted = None THEN items
                    ELSE heapify(RemoveFirst(items, evicted[1]))
        /\ last' = [op |-> "enqueue", arg |-> conn[c].pending,
                    ret |-> evicted, pre |-> <<>>,
                    pre_processing |-> is_processing, n |-> 0]
        /\ conn' = [conn EXCEPT
                      ![c].pc = IF evicted = None THEN "size_call" ELSE "idle",
                      ![c].pending = None]
    /\ lock' = release(lock)
    /\ UNCHANGED <<clock, next_id>>
    /\ LockConnUnchanged

\* handle_comment enters size
LSizeCall(c) ==
    /\ conn[c].pc = "size_call"
    /\ conn' = [conn EXCEPT ![c].pc = Entered(lock, "size_wait", "size_read")]
    /\ lock' = acquire(lock, c)
    /\ UNCHANGED <<items, clock, next_id, last>>
    /\ LockConnUnchanged

\* size: len(self._items), the end of the with block and the return
LSizeRead(c) ==
    /\ conn[c].pc = "size_read"
    /\ last' = [op |-> "size", arg |-> None, ret |-> None, pre |-> <<>>,
                pre_processing |-> is_processing, n |-> size(items)]
    /\ conn' = [conn EXCEPT ![c].pc = "idle"]
    /\ lock' = release(lock)
    /\ UNCHANGED <<items, clock, next_id>>
    /\ LockConnUnchanged

\* process_queue enters dequeue
LDequeueCall ==
    /\ dpc = "sleep"
    /\ dpc' = Entered(lock, "dequeue_wait", "dequeue_pop")
    /\ lock' = acquire(lock, DispatchCaller)
    /\ UNCHANGED <<items, is_processing, ditem, last>>
    /\ LockDispatchUnchanged

\* process_queue, having waited for the lock, is handed it
LDispatchResume ==
    /\ dpc \in {"dequeue_wait", "mark_idle_wait"}
    /\ DispatchCaller \in lock.woken
    /\ lock' = acquire_resume(lock, DispatchCaller)
    /\ dpc' = IF dpc = "dequeue_wait" THEN "dequeue_pop" ELSE "mark_idle_set"
    /\ UNCHANGED <<items, is_processing, ditem, last>>
    /\ LockDispatchUnchanged

\* dequeue: the two early returns, else heapq.heappop
LDequeuePop ==
    /\ dpc = "dequeue_pop"
    /\ IF items = <<>> \/ Refuses(is_processing, cfg.allow_concurrent)
       THEN /\ lock' = release(lock)
            /\ dpc' = "sleep"
            /\ last' = [op |-> "dequeue", arg |-> None, ret |-> None,
                        pre |-> <<>>, pre_processing |-> is_processing,
                        n |-> 0]
            /\ UNCHANGED <<items, ditem>>
       ELSE /\ \E r \in {heappop(items)} :
                /\ items' = r.heap
                /\ ditem' = Some(r.item)
            /\ dpc' = "dequeue_flag"
            /\ UNCHANGED <<lock, last>>
    /\ UNCHANGED is_processing
    /\ LockDispatchUnchanged

\* dequeue: the processing flag, the end of the with block and the return;
\* process_queue starts to work on the item
LDequeueFlag ==
    /\ dpc = "dequeue_flag"
    /\ is_processing' = IF ~cfg.allow_concurrent THEN TRUE ELSE is_processing
    /\ last' = [op |-> "dequeue", arg |-> None, ret |-> ditem,
                pre |-> <<>>, pre_processing |-> is_processing, n |-> 0]
    /\ lock' = release(lock)
    /\ dpc' = "send"
    /\ UNCHANGED <<items, ditem>>
    /\ LockDispatchUnchanged

\* process_queue's finally clause enters mark_idle
LMarkIdleCall ==
    /\ dpc = "send"
    /\ dpc' = Entered(lock, "mark_idle_wait", "mark_idle_set")
    /\ lock' = acquire(lock, DispatchCaller)
    /\ UNCHANGED <<items, is_processing, ditem, last>>
    /\ LockDispatchUnchanged

\* mark_idle: the flag, the end of the with block and the return
LMarkIdleSet ==
    /\ dpc = "mark_idle_set"
    /\ is_processing' = mark_idle(is_processing)
    /\ last' = [op |-> "mark_idle", arg |-> None, ret |-> None,
                pre |-> <<>>, pre_processing |-> is_processing, n |-> 0]
    /\ lock' = release(lock)
    /\ dpc' = "sleep"
    /\ ditem' = None
    /\ UNCHANGED items
    /\ LockDispatchUnchanged

\* the steps a connection task takes once it is inside a call
LConnStep(c) ==
    LConnResume(c) \/ LEnqueuePush(c) \/ LEnqueueEvict(c) \/ LSizeRead(c)

\* the steps process_queue takes once it is inside a call
LDispatchStep ==
    LDispatchResume \/ LDequeuePop \/ LDequeueFlag \/ LMarkIdleSet

LockNext ==
    \/ \E c \in Conns : LEnqueueCall(c) \/ LSizeCall(c) \/ LConnStep(c)
    \/ LDequeueCall
    \/ LMarkIdleCall
    \/ LDispatchStep

\* the event loop runs every task that is ready to run
LockFairness ==
    /\ \A c \in Conns : WF_vars(LConnStep(c))
    /\ WF_vars(LDispatchStep)

LockSpec == LockInit /\ [][LockNext]_vars /\ LockFairness

\* C17: enqueue, dequeue, mark_idle and size are atomic with respect to
\* one another however the callers interleave: no call reads the queue
\* while another caller stands between an insertion and its eviction or
\* between the pop and the setting of the processing flag, size never
\* returns more than max_size when a maximum is set, and every call that
\* was entered returns.
Reading(caller) ==
    IF caller = DispatchCaller
    THEN dpc \in {"dequeue_pop", "mark_idle_set"}
    ELSE conn[caller].pc \in {"enqueue_push", "size_read"}

HalfDone(caller) ==
    IF caller = DispatchCaller
    THEN dpc = "dequeue_flag"
    ELSE conn[caller].pc = "enqueue_evict"

InCall(caller) ==
    IF caller = DispatchCaller
    THEN dpc \in {"dequeue_wait", "dequeue_pop", "dequeue_flag",
                  "mark_idle_wait", "mark_idle_set"}
    ELSE conn[caller].pc \in {"enqueue_wait", "enqueue_push",
                              "enqueue_evict", "size_wait", "size_read"}

CallsAreAtomic ==
    /\ \A x \in Callers, y \in Callers :
         HalfDone(x) /\ x # y => ~Reading(y) /\ ~HalfDone(y)
    /\ \A x \in Callers :
         Reading(x) => ~Overflows(items, cfg.max_size)
    /\ last.op = "size" /\ cfg.max_size > 0 => last.n <= cfg.max_size

C17_CallsAtomicAndReturn ==
    /\ []CallsAreAtomic
    /\ \A x \in Callers : InCall(x) ~> ~InCall(x)

C17_Witness ==
    \E c \in Conns :
        /\ conn[c].pc = "enqueue_evict"
        /\ Overflows(items, cfg.max_size)
        /\ DispatchCaller \in Range(lock.waiters)
        /\ \E o \in Conns \ {c} : o \in Range(lock.waiters)

\* C21: calculate_priority returns priority 0 exactly when the text
\* contains a trigger word, compared without regard to case, or the
\* first-time flag is set, and priority 3 otherwise; has_trigger is true
\* exactly when a trigger word matched, whatever the first-time flag is.
SameLetter(x, y) ==
    \E i \in 1..Len(Uppers) : {x, y} \subseteq {Uppers[i], Lowers[i]}

HasTriggerWord(text) ==
    \E k \in 1..Len(trigger_words) :
        \E i \in 1..(Len(text) - Len(trigger_words[k]) + 1) :
            \A j \in 1..Len(trigger_words[k]) :
                \/ text[i + j - 1] = trigger_words[k][j]
                \/ SameLetter(text[i + j - 1], trigger_words[k][j])

FirstTimeSet(comment_data) ==
    "isFirstTime" \in DOMAIN comment_data /\ comment_data.isFirstTime

C21_PriorityRule ==
    last.op = "calculate_priority" =>
        /\ last.ret.has_trigger <=> HasTriggerWord(last.arg.comment)
        /\ last.ret.priority =
               IF HasTriggerWord(last.arg.comment) \/ FirstTimeSet(last.arg)
               THEN 0 ELSE 3

C21_Witness ==
    /\ last.op = "calculate_priority"
    /\ last.arg.comment = <<"a", "q">>
    /\ ~FirstTimeSet(last.arg)
    /\ last.ret = [priority |-> 0, has_trigger |-> TRUE]

\* C22: mark_idle never raises; it leaves the queue not processing and
\* its stored entries as they were, so called with no entry in flight it
\* changes nothing, and a second call right after a first changes nothing
\* either.
C22_MarkIdleIdempotent ==
    [][/\ ENABLED QMarkIdle
       /\ last'.op = "mark_idle" =>
            /\ ~is_processing'
            /\ items' = items
            /\ ~is_processing => is_processing' = is_processing
            /\ last.op = "mark_idle" =>
                 <<items', is_processing', inflight'>>
                     = <<items, is_processing, inflight>>]_vars

C22_Witness ==
    /\ last.op = "mark_idle"
    /\ ~last.pre_processing
    /\ ~cfg.allow_concurrent
    /\ deqlog # <<>>
    /\ items # <<>>

\* C23: with greetings enabled build_prompt uses the first-time greeting
\* exactly when the comment's first-time flag is set and the returning
\* greeting otherwise; in the greeting and in the comment line the author
\* label is the name if the comment has one, else the userid if it has
\* one, else the default label (an empty name or userid counts as none).
Present(comment_data, key) ==
    key \in DOMAIN comment_data /\ comment_data[key] # <<>>

Label(comment_data) ==
    IF Present(comment_data, "name") THEN comment_data.name
    ELSE IF Present(comment_data, "userid") THEN comment_data.userid
    ELSE default_username

\* a template that starts with its only field, filled in with the label
Filled(template, label) == label \o SubSeq(template, 2, Len(template))

C23_GreetingAndLabel ==
    last.op = "build_prompt" /\ ~last.ret.raised =>
        LET comment_data == last.arg.comment_data
            lines == last.ret.lines
            text == IF "comment" \in DOMAIN comment_data
                    THEN comment_data.comment ELSE <<>>
        IN  /\ lines[Len(lines)] = Label(comment_data) \o <<":">> \o text
            /\ last.arg.use_greeting =>
                 /\ Len(lines) = 5
                 /\ lines[3] =
                      IF FirstTimeSet(comment_data)
                      THEN Filled(cfg.greeting_first, Label(comment_data))
                      ELSE Filled(cfg.greeting_return, Label(comment_data))

C23_Witness ==
    /\ last.op = "build_prompt"
    /\ last.arg.use_greeting
    /\ last.arg.comment_data =
           [name |-> <<>>, userid |-> <<"u">>, comment |-> <<"a">>,
            isFirstTime |-> TRUE]
    /\ last.ret.lines[3] = <<"u", "!">>
    /\ last.ret.lines[5] = <<"u", ":", "a">>

\* ------------------------------ ConnSpec: the feed connections on their own
\* What a feed can do to its connection, apart from delivering comments.

\* websockets.connect, the sleep or the subscribe send raises
ConnectFail(c) ==
    /\ conn[c].pc = "connect"
    /\ ~conn[c].cancel
    /\ conn' = AfterError(c)
    /\ ConnUnchanged

\* the iteration over the websocket raises (the connection broke)
FeedError(c) ==
    /\ conn[c].pc = "recv"
    /\ ~conn[c].cancel
    /\ conn' = AfterError(c)
    /\ ConnUnchanged

\* the iteration over the websocket ends (the server closed the
\* connection): _consume returns, the with block is left without an
\* exception and the while loop tests the stop event
FeedClosed(c) ==
    /\ conn[c].pc = "recv"
    /\ ~conn[c].cancel
    /\ conn' = [conn EXCEPT
                  ![c].pc = IF onecomme_stop_event THEN "done" ELSE "connect"]
    /\ ConnUnchanged

ConnNext ==
    \/ \E c \in Conns : ConnectOk(c)
    \/ \E c \in Conns : ConnectFail(c)
    \/ \E c \in Conns : FeedError(c)
    \/ \E c \in Conns : FeedClosed(c)
    \/ \E c \in Conns : BackoffWake(c)

ConnSpec == Init /\ [][ConnNext]_vars

\* the waits of a connection: 1 after a successful connect, doubled after
\* each wait up to max_backoff, and untouched by the other connections
BackoffSchedule ==
    [][\A c \in Conns :
        /\ conn[c].backoff \in 1..max_backoff
        /\ conn'[c].pc = "recv" => conn'[c].backoff = 1
        /\ conn[c].pc = "backoff" /\ conn'[c].pc # "backoff" =>
             conn'[c].backoff = Min(2 * conn[c].backoff, max_backoff)
        /\ conn[c].pc # "backoff" /\ conn'[c].pc = "backoff" =>
             conn'[c].backoff = conn[c].backoff
        /\ conn'[c] # conn[c] =>
             \A o \in Conns \ {c} : conn'[o] = conn[o]]_vars

\* C24: per feed connection, every disconnection is followed by a wait
\* before the next connection attempt; the wait is 1 after a successful
\* connect, doubles after each consecutive failure up to 30, and the
\* retry state of one connection is not touched by another.
C24_BackoffAfterEveryDisconnect ==
    [][\A c \in Conns :
        /\ conn[c].pc = "recv" /\ conn'[c].pc # "recv" =>
             conn'[c].pc = "backoff" /\ conn'[c].backoff = 1
        /\ conn[c].pc = "backoff" /\ conn'[c].pc # "backoff" =>
             conn'[c].backoff = Min(2 * conn[c].backoff, max_backoff)
        /\ conn[c].backoff <= max_backoff
        /\ conn'[c] # conn[c] =>
             \A o \in Conns \ {c} : conn'[o] = conn[o]]_vars

\* C25: in every reachable state total_received equals total_skipped plus
\* total_responded plus the comments inside handle_comment whose outcome
\* is open, plus the entries stored in the queue, plus the entry that was
\* dequeued and is not finished.
AwaitingOutcome == Cardinality({c \in Conns : conn[c].pending # None})

BeingProcessed == IF ditem = None THEN 0 ELSE 1

C25_Accounting ==
    stats.total_received =
        stats.total_skipped + stats.total_responded + AwaitingOutcome
            + Len(items) + BeingProcessed

\* C26: while process_queue waits for relief the entry it dequeued is no
\* longer in the heap, so no enqueue can evict it and size() does not
\* count it; no step taken during the wait changes it, and the generation
\* call that follows the wait is for that entry, whatever was enqueued in
\* the meantime.
HeldEntryOutsideQueue ==
    dpc = "relief" =>
        /\ ditem # None
        /\ \A i \in 1..Len(items) :
              items[i].comment_id # ditem[1].comment_id

C26_DequeuedEntryGoesFirst ==
    /\ []HeldEntryOutsideQueue
    /\ [][dpc = "relief" =>
            /\ dpc' \in {"relief", "send"} => ditem' = ditem
            /\ dpc' \notin {"relief", "send"} =>
                 "dispatch" \in cancelling /\ dpc' = "done"]_vars

\* C26 witness: a generation call runs for a priority 3 entry that waited
\* for relief while a priority 0 entry, enqueued later, is still stored
C26_Witness ==
    /\ dpc = "send"
    /\ dwaited
    /\ ditem # None
    /\ ditem[1].priority = 3
    /\ \E i \in 1..Len(items) :
          /\ items[i].priority = 0
          /\ items[i].comment_id > ditem[1].comment_id

\* C27: an exception raised while a comment is handled (stage_b_judge on
\* a comment that is not urgent and empty once trimmed, with
\* min_comment_length <= 0) is not caught per comment: the step records
\* the receipt and nothing else, nothing is enqueued, the connection that
\* delivered the comment goes to sleep for its backoff and can then
\* reconnect, and the dispatch loop, the monitor, listen and the other
\* connections are left as they were.
RaisesIndexError(comment_data) ==
    /\ ~Urgent(comment_data)
    /\ strip(comment_data.comment) = <<>>
    /\ cfg.min_comment_length <= 0

C27_HandlerExceptionDropsConnection ==
    /\ [](\A c \in Conns :
            /\ conn[c].pc = "backoff" /\ ~conn[c].cancel =>
                  ENABLED BackoffWake(c)
            /\ conn[c].pc = "connect" /\ ~conn[c].cancel =>
                  ENABLED ConnectOk(c))
    /\ [][\A c \in Conns, comment_data \in Comments :
            /\ next_id' = next_id + 1
            /\ RaisesIndexError(comment_data)
            /\ HandleComment(c, comment_data)
            =>
                /\ conn'[c].pc = "backoff"
                /\ conn'[c].pending = None
                /\ \A o \in Conns \ {c} : conn'[o] = conn[o]
                /\ stats' = record_received(stats)
                /\ UNCHANGED <<items, is_processing, dpc, ditem, mon, lpc,
                               latest_usage_raw, cancelling, phase>>]_vars

\* C27 witness: the only comment received so far raised; it was counted
\* as received and nowhere else, and its connection sleeps for the backoff
\* while the other connection still receives
C27_Witness ==
    \E c \in Conns :
        /\ conn[c].pc = "backoff"
        /\ \A o \in Conns \ {c} : conn[o].pc = "recv"
        /\ stats.total_received = 1
        /\ stats.total_skipped = 0
        /\ stats.total_responded = 0
        /\ items = <<>>
        /\ ditem = None
        /\ phase = "running"

\* --------------------------- DrainSpec: the program while it keeps running
\* No signal arrives.  The started configurations are the two of Spec and
\* the two of GreetingSpec.
DrainComments ==
    StopComments \cup {[comment |-> <<"q">>, isFirstTime |-> FALSE]}

DrainInit == InitWith(Configs \cup GreetingConfigs)

DrainNext ==
    \/ \E c \in Conns, comment_data \in DrainComments :
           HandleComment(c, comment_data)
    \/ \E c \in Conns, response_text \in Responses :
           ClassifyReturn(c, response_text)
    \/ \E c \in Conns : ClassifyRaise(c)
    \/ \E c \in Conns : ConnectOk(c)
    \/ \E c \in Conns : BackoffWake(c)
    \/ \E usage \in StopUsages : MonitorSample(usage)
    \/ DispatchWake
    \/ ReliefWake
    \/ GenReturn
    \/ GenRaise

\* the event loop wakes the sleeping tasks, psutil keeps delivering
\* samples, and every send_prompt call returns or raises (it has a timeout)
DrainFairness ==
    /\ WF_vars(DispatchWake)
    /\ WF_vars(ReliefWake)
    /\ WF_vars(GenReturn \/ GenRaise)
    /\ WF_vars(\E usage \in StopUsages : MonitorSample(usage))

DrainSpec == DrainInit /\ [][DrainNext]_vars /\ DrainFairness

\* C28: if the samples eventually stay below max_cpu_usage (comments stop
\* arriving and generation calls end in every behaviour of DrainSpec),
\* the queue is eventually empty for good with no entry left in hand; and
\* every entry the dispatch loop removes is held for a generation call and
\* let go in a step that records exactly one response or one api_error
\* skip.
RemovedEntryIsRecorded ==
    /\ Len(items') < Len(items) => ditem' # None
    /\ ditem # None /\ ditem' # ditem =>
         \/ /\ stats'.total_responded = stats.total_responded + 1
            /\ stats'.total_skipped = stats.total_skipped
         \/ /\ stats'.total_responded = stats.total_responded
            /\ stats'.total_skipped = stats.total_skipped + 1
            /\ stats'.skip_reasons["api_error"] =
                   stats.skip_reasons["api_error"] + 1

C28_QueueDrains ==
    /\ <>[](~MustWait) => <>[](items = <<>> /\ ditem = None)
    /\ [][RemovedEntryIsRecorded]_vars

====
